---- MODULE Spec2Model ----
(***************************************************************************)
(* vite-plugin-virtual-manifests: the plugin object returned by            *)
(* viteVirtualManifests (src/index.js) and its helpers, as a state         *)
(* machine.  Strings are sequences of UTF-16 code units, so that           *)
(* String.prototype.startsWith and Array.prototype.toSorted are what the   *)
(* code computes.                                                          *)
(***************************************************************************)
EXTENDS Integers, Sequences, FiniteSets, TLC

(***************************************************************************)
(* Bounds of the model.                                                    *)
(***************************************************************************)
MaxPaths == 3        \* longest array handed to returnTopLevelPaths
MaxCalls == 2        \* load calls and watcher events the host makes in one run
MaxHostCalls == 1    \* load calls and watcher events made around a cache pass

(***************************************************************************)
(* Strings.                                                                *)
(***************************************************************************)
\* path.sep (POSIX): "/"
sep == <<47>>

\* String(null), what startsWith(null) searches for
nullString == <<110, 117, 108, 108>>

\* s.startsWith(p)
startsWith(s, p) ==
    /\ Len(p) <= Len(s)
    /\ SubSeq(s, 1, Len(p)) = p

\* a < b in the default sort order of toSorted(): UTF-16 code units, the
\* shorter string first when one is a prefix of the other
RECURSIVE codeUnitLess(_, _)
codeUnitLess(a, b) ==
    IF a = <<>> THEN b # <<>>
    ELSE IF b = <<>> THEN FALSE
    ELSE IF Head(a) # Head(b) THEN Head(a) < Head(b)
    ELSE codeUnitLess(Tail(a), Tail(b))

\* insertion of one element into a sorted array
RECURSIVE insertSorted(_, _)
insertSorted(x, arr) ==
    IF arr = <<>> THEN <<x>>
    ELSE IF codeUnitLess(Head(arr), x) THEN <<Head(arr)>> \o insertSorted(x, Tail(arr))
    ELSE <<x>> \o arr

\* array.toSorted() of an array of strings
RECURSIVE toSorted(_)
toSorted(arr) ==
    IF arr = <<>> THEN <<>>
    ELSE insertSorted(Head(arr), toSorted(Tail(arr)))

\* the elements of an array
Range(arr) == {arr[i] : i \in 1..Len(arr)}

\* arrays of distinct elements of S, of length at most n
DistinctArrays(S, n) ==
    UNION { { a \in [1..k -> S] : \A i, j \in 1..k : a[i] = a[j] => i = j } : k \in 0..n }

(***************************************************************************)
(* returnTopLevelPaths                                                     *)
(***************************************************************************)
\* the reducer: keep currentValue unless it starts with the last kept
\* directory followed by path.sep
topLevelStep(accumulator, currentValue) ==
    IF /\ accumulator # <<>>
       /\ startsWith(currentValue, accumulator[Len(accumulator)] \o sep)
    THEN accumulator
    ELSE Append(accumulator, currentValue)

RECURSIVE reduceTopLevel(_, _)
reduceTopLevel(sortedArray, accumulator) ==
    IF sortedArray = <<>> THEN accumulator
    ELSE reduceTopLevel(Tail(sortedArray), topLevelStep(accumulator, Head(sortedArray)))

returnTopLevelPaths(filePathArray) ==
    reduceTopLevel(toSorted(filePathArray), <<>>)

(***************************************************************************)
(* Module constants (src/index.js:4-11).                                   *)
(***************************************************************************)
\* "virtual:manifests/"
VIRTUAL_MODULE_PREFIX ==
    <<118, 105, 114, 116, 117, 97, 108, 58, 109, 97, 110, 105, 102, 101, 115, 116, 115, 47>>

\* "\0virtual:manifests/"
RESOLVED_VIRTUAL_MODULE_PREFIX == <<0>> \o VIRTUAL_MODULE_PREFIX

\* defaultOptions.outputDirectory: ".manifests"
defaultOutputDirectory == <<46, 109, 97, 110, 105, 102, 101, 115, 116, 115>>

\* null and undefined option values (a missing watchDir, rootDirectory: null);
\* the empty string is falsy as well and is treated alike by the code
Null == <<>>

\* s.slice(n)
slice(s, n) == SubSeq(s, n + 1, Len(s))

\* path.resolve(base, p) for an absolute base and a p without "." and ".."
\* segments: an absolute p replaces base, an empty p is skipped
pathResolve(base, p) ==
    IF p = <<>> THEN base
    ELSE IF startsWith(p, sep) THEN p
    ELSE base \o sep \o p

\* `${name}.json`
jsonFileName(name) == name \o <<46, 106, 115, 111, 110>>

\* path.dirname(p) for an absolute p of at least two segments
RECURSIVE dirname(_)
dirname(p) ==
    IF p = <<>> THEN <<>>
    ELSE IF p[Len(p)] = 47 THEN SubSeq(p, 1, Len(p) - 1)
    ELSE dirname(SubSeq(p, 1, Len(p) - 1))

(***************************************************************************)
(* Manifest data and its text.  A JSON value is an array of small numbers. *)
(***************************************************************************)
\* String(n) for a one-digit number
numberText(n) == <<48 + n>>

\* the elements of a non-empty array as JSON.stringify(_, null, 2) prints
\* them: each on its own line behind two spaces, separated by commas
RECURSIVE jsonElements(_)
jsonElements(data) ==
    IF data = <<>> THEN <<>>
    ELSE <<10, 32, 32>> \o numberText(Head(data))
         \o (IF Tail(data) = <<>> THEN <<>> ELSE <<44>>)
         \o jsonElements(Tail(data))

\* JSON.stringify(data, null, 2)
JSONStringify(data) ==
    IF data = <<>> THEN <<91, 93>>
    ELSE <<91>> \o jsonElements(data) \o <<10, 93>>

\* `export default ${JSON.stringify(data, null, 2)};`
moduleSource(data) ==
    <<101, 120, 112, 111, 114, 116, 32, 100, 101, 102, 97, 117, 108, 116, 32>>
    \o JSONStringify(data) \o <<59>>

\* what the k-th invocation of generate returns when it is the generate of
\* manifest m: a value no other invocation returns
generateResult(m, k) == <<m, k>>

\* the jsonTransform of a manifest, applied to data
jsonTransform(data) == Append(data, 0)

\* transformData without the `|| !apply` of shouldApply
transformData_applyMustMatch(data, transformOptions, command) ==
    LET shouldApply == transformOptions.apply = command
    IN  IF ~transformOptions.jsonTransform \/ ~shouldApply THEN data
        ELSE jsonTransform(data)

\* transformData(data, transformOptions, command): the value it returns
transformData(data, transformOptions, command) ==
    LET shouldApply == transformOptions.apply = command \/ transformOptions.apply = ""
    IN  IF ~transformOptions.jsonTransform \/ ~shouldApply THEN data
        ELSE jsonTransform(data)

\* transformData calls jsonTransform
transformCalls(transformOptions, command) ==
    /\ transformOptions.jsonTransform
    /\ (transformOptions.apply = command \/ transformOptions.apply = "")

(***************************************************************************)
(* State.                                                                  *)
(***************************************************************************)
VARIABLES
    pc,                  \* lifecycle position of the plugin instance
    filePathArray,       \* argument of a direct returnTopLevelPaths call
    topLevelDirectories, \* its result
    options,             \* the merged options of viteVirtualManifests
    callBudget,          \* load calls and watcher events the host makes in this run
    config,              \* the resolved host configuration (let config)
    resolvedManifests,   \* let resolvedManifests
    watcherAdded,        \* directories given to server.watcher.add
    watcherHandlers,     \* events of server.watcher with handleFileChange subscribed
    moduleGraph,         \* ids that have a module in server.moduleGraph
    invalidated,         \* ids passed to moduleGraph.invalidateModule, in call order
    wsSent,              \* payloads passed to server.ws.send, in call order
    fileEvents,          \* number of watcher events handled so far
    lastEvent,           \* the last watcher event handled and what its handler did
    loadCalls,           \* every call of load, in call order, with its outcome
    generateCalls,       \* every invocation of a manifest's generate, in call order
    hostErrors,          \* messages given to this.error
    buildState,          \* buildStart: not called, awaiting its tasks, or resolved
    tasks,               \* the generateManifestCache call of each manifest
    files,               \* the files on disk: path -> content
    directories,         \* directories created by fs.mkdir
    consoleErrors        \* manifest names reported through console.error

topVars == <<filePathArray, topLevelDirectories>>
cfgVars == <<options, callBudget, config, resolvedManifests>>
serverVars == <<watcherAdded, watcherHandlers, moduleGraph, invalidated, wsSent,
                fileEvents, lastEvent>>
loadVars == <<loadCalls, generateCalls, hostErrors>>
buildVars == <<buildState, tasks, files, directories, consoleErrors>>

vars == <<pc, topVars, cfgVars, serverVars, loadVars, buildVars>>

\* values of the variables a scenario has not touched yet
NoConfig == [command |-> "", root |-> Null, publicDir |-> Null]
NoEvent == [path |-> Null, graph |-> {}, calls |-> <<>>]
NoOptions == [manifests |-> <<>>, outputDirectory |-> defaultOutputDirectory,
              cacheManifests |-> TRUE, rootDirectory |-> Null]

InitTopVars == filePathArray = <<>> /\ topLevelDirectories = <<>>
InitCfgVars == config = NoConfig /\ resolvedManifests = <<>>
InitServerVars ==
    /\ watcherAdded = {}
    /\ watcherHandlers = {}
    /\ moduleGraph = {}
    /\ invalidated = <<>>
    /\ wsSent = <<>>
    /\ fileEvents = 0
    /\ lastEvent = NoEvent
InitLoadVars == loadCalls = <<>> /\ generateCalls = <<>> /\ hostErrors = <<>>
InitBuildVars ==
    /\ buildState = "idle"
    /\ tasks = <<>>
    /\ files = {}
    /\ directories = {}
    /\ consoleErrors = <<>>

(***************************************************************************)
(* configResolved                                                          *)
(***************************************************************************)
\* const ignoresArray = Array.isArray(ignores) ? ignores : [ignores], where
\* ignores = watchIgnore || []
ignoresArray(watchIgnore) ==
    IF watchIgnore.kind = "array" THEN watchIgnore.arr
    ELSE IF watchIgnore.kind = "string" /\ watchIgnore.str # <<>> THEN <<watchIgnore.str>>
    ELSE <<>>

\* the element of resolvedManifests made from one manifest of the options
resolveManifest(manifest, resolvedRoot, outputDirectory) ==
    [name |-> manifest.name,
     transform |-> manifest.transform,
     watchDir |-> IF manifest.watchDir # <<>>
                  THEN pathResolve(resolvedRoot, manifest.watchDir)
                  ELSE Null,
     watchIgnore |-> [i \in 1..Len(ignoresArray(manifest.watchIgnore)) |->
                         pathResolve(resolvedRoot, ignoresArray(manifest.watchIgnore)[i])],
     output |-> pathResolve(pathResolve(resolvedRoot, outputDirectory),
                            jsonFileName(manifest.name))]

\* the host calls configResolved(resolvedConfig) once, first of all hooks
configResolved(resolvedConfig) ==
    /\ pc = "constructed"
    /\ config' = resolvedConfig
    /\ LET resolvedRoot == IF options.rootDirectory # Null
                           THEN options.rootDirectory
                           ELSE resolvedConfig.root
       IN  resolvedManifests' =
               [i \in 1..Len(options.manifests) |->
                   resolveManifest(options.manifests[i], resolvedRoot,
                                   options.outputDirectory)]
    /\ pc' = "resolved"
    /\ UNCHANGED <<options, callBudget, topVars, serverVars, loadVars, buildVars>>

(***************************************************************************)
(* configureServer and the watcher handler                                 *)
(***************************************************************************)
\* [...new Set(array)]: the first occurrence of each element, in order
RECURSIVE uniqueArray(_, _)
uniqueArray(array, seen) ==
    IF array = <<>> THEN <<>>
    ELSE IF Head(array) \in seen THEN uniqueArray(Tail(array), seen)
    ELSE <<Head(array)>> \o uniqueArray(Tail(array), seen \cup {Head(array)})

\* array.filter(Boolean) of an array of strings and nulls
RECURSIVE filterBoolean(_)
filterBoolean(array) ==
    IF array = <<>> THEN <<>>
    ELSE IF Head(array) = Null THEN filterBoolean(Tail(array))
    ELSE <<Head(array)>> \o filterBoolean(Tail(array))

\* resolvedManifests.map(m => m.watchDir).filter(Boolean).toSorted(), made unique
watchDirectorySet(manifests) ==
    uniqueArray(toSorted(filterBoolean([i \in 1..Len(manifests) |-> manifests[i].watchDir])), {})

\* the directories the loop of configureServer hands to server.watcher.add
directoriesToAdd(manifests, root, publicDir) ==
    {directory \in Range(returnTopLevelPaths(watchDirectorySet(manifests))) :
        ~(startsWith(directory, publicDir) \/ startsWith(directory, root))}

\* configureServer without the early return for an empty watchDirectorySet
configureServer_alwaysSubscribes ==
    /\ pc = "resolved"
    /\ config.command = "serve"
    /\ watcherAdded' = directoriesToAdd(resolvedManifests, config.root, config.publicDir)
    /\ watcherHandlers' = {"add", "change", "unlink"}
    /\ pc' = "serving"
    /\ UNCHANGED <<moduleGraph, invalidated, wsSent, fileEvents, lastEvent>>
    /\ UNCHANGED <<topVars, cfgVars, loadVars, buildVars>>

configureServer ==
    /\ pc = "resolved"
    /\ config.command = "serve"
    /\ IF Len(watchDirectorySet(resolvedManifests)) = 0
       THEN UNCHANGED <<watcherAdded, watcherHandlers>>
       ELSE /\ watcherAdded' =
                   directoriesToAdd(resolvedManifests, config.root, config.publicDir)
            /\ watcherHandlers' = {"add", "change", "unlink"}
    /\ pc' = "serving"
    /\ UNCHANGED <<moduleGraph, invalidated, wsSent, fileEvents, lastEvent>>
    /\ UNCHANGED <<topVars, cfgVars, loadVars, buildVars>>

\* the string a startsWith argument is converted to
searchString(value) == IF value = Null THEN nullString ELSE value

\* isIgnored with the watchIgnore test left out
isIgnored_never(manifest, filePath) == FALSE

\* manifest.watchIgnore.some(ignoredPath => filePath.startsWith(ignoredPath))
isIgnored(manifest, filePath) ==
    \E i \in 1..Len(manifest.watchIgnore) : startsWith(filePath, manifest.watchIgnore[i])

\* filePath.startsWith(manifest.watchDir)
isWithinDirectory(manifest, filePath) ==
    startsWith(filePath, searchString(manifest.watchDir))

\* `${RESOLVED_VIRTUAL_MODULE_PREFIX}${manifest.name}`
resolvedIdOf(name) == RESOLVED_VIRTUAL_MODULE_PREFIX \o name

\* the payload of server.ws.send: type "full-reload", path "*"
fullReload == [type |-> "full-reload", path |-> <<42>>]

\* the loop with `return` in place of `continue` for a manifest whose module
\* is not in the graph
RECURSIVE handleFileChangeFrom_returnOnMissing(_, _, _, _)
handleFileChangeFrom_returnOnMissing(i, filePath, manifests, graph) ==
    IF i > Len(manifests) THEN <<>>
    ELSE IF ~isWithinDirectory(manifests[i], filePath) \/ isIgnored(manifests[i], filePath)
         THEN handleFileChangeFrom_returnOnMissing(i + 1, filePath, manifests, graph)
    ELSE IF resolvedIdOf(manifests[i].name) \notin graph
         THEN <<>>
    ELSE << [call |-> "invalidateModule", manifest |-> i,
             id |-> resolvedIdOf(manifests[i].name), payload |-> fullReload],
            [call |-> "ws.send", manifest |-> i,
             id |-> resolvedIdOf(manifests[i].name), payload |-> fullReload] >>

\* the loop walking the manifests from the last registered to the first
RECURSIVE handleFileChangeFrom_reversed(_, _, _, _)
handleFileChangeFrom_reversed(i, filePath, manifests, graph) ==
    LET j == Len(manifests) + 1 - i
    IN  IF i > Len(manifests) THEN <<>>
        ELSE IF ~isWithinDirectory(manifests[j], filePath) \/ isIgnored(manifests[j], filePath)
             THEN handleFileChangeFrom_reversed(i + 1, filePath, manifests, graph)
        ELSE IF resolvedIdOf(manifests[j].name) \notin graph
             THEN handleFileChangeFrom_reversed(i + 1, filePath, manifests, graph)
        ELSE << [call |-> "invalidateModule", manifest |-> j,
                 id |-> resolvedIdOf(manifests[j].name), payload |-> fullReload],
                [call |-> "ws.send", manifest |-> j,
                 id |-> resolvedIdOf(manifests[j].name), payload |-> fullReload] >>

\* the loop without the `return` that ends it after an invalidation
RECURSIVE handleFileChangeFrom_noReturn(_, _, _, _)
handleFileChangeFrom_noReturn(i, filePath, manifests, graph) ==
    IF i > Len(manifests) THEN <<>>
    ELSE IF ~isWithinDirectory(manifests[i], filePath) \/ isIgnored(manifests[i], filePath)
         THEN handleFileChangeFrom_noReturn(i + 1, filePath, manifests, graph)
    ELSE IF resolvedIdOf(manifests[i].name) \notin graph
         THEN handleFileChangeFrom_noReturn(i + 1, filePath, manifests, graph)
    ELSE << [call |-> "invalidateModule", manifest |-> i,
             id |-> resolvedIdOf(manifests[i].name), payload |-> fullReload],
            [call |-> "ws.send", manifest |-> i,
             id |-> resolvedIdOf(manifests[i].name), payload |-> fullReload] >>
         \o handleFileChangeFrom_noReturn(i + 1, filePath, manifests, graph)

\* the loop with a reload sent for a matching manifest whose module is not in
\* the graph
RECURSIVE handleFileChangeFrom_sendOnMissing(_, _, _, _)
handleFileChangeFrom_sendOnMissing(i, filePath, manifests, graph) ==
    IF i > Len(manifests) THEN <<>>
    ELSE IF ~isWithinDirectory(manifests[i], filePath) \/ isIgnored(manifests[i], filePath)
         THEN handleFileChangeFrom_sendOnMissing(i + 1, filePath, manifests, graph)
    ELSE IF resolvedIdOf(manifests[i].name) \notin graph
         THEN << [call |-> "ws.send", manifest |-> i,
                  id |-> resolvedIdOf(manifests[i].name), payload |-> fullReload] >>
    ELSE << [call |-> "invalidateModule", manifest |-> i,
             id |-> resolvedIdOf(manifests[i].name), payload |-> fullReload],
            [call |-> "ws.send", manifest |-> i,
             id |-> resolvedIdOf(manifests[i].name), payload |-> fullReload] >>

\* the loop of the handler from manifest i on: the calls it makes on the
\* server, in order, when the module graph holds the ids of graph
RECURSIVE handleFileChangeFrom(_, _, _, _)
handleFileChangeFrom(i, filePath, manifests, graph) ==
    IF i > Len(manifests) THEN <<>>
    ELSE IF ~isWithinDirectory(manifests[i], filePath) \/ isIgnored(manifests[i], filePath)
         THEN handleFileChangeFrom(i + 1, filePath, manifests, graph)
    ELSE IF resolvedIdOf(manifests[i].name) \notin graph
         THEN handleFileChangeFrom(i + 1, filePath, manifests, graph)
    ELSE << [call |-> "invalidateModule", manifest |-> i,
             id |-> resolvedIdOf(manifests[i].name), payload |-> fullReload],
            [call |-> "ws.send", manifest |-> i,
             id |-> resolvedIdOf(manifests[i].name), payload |-> fullReload] >>

handleFileChange(filePath, manifests, graph) ==
    handleFileChangeFrom(1, filePath, manifests, graph)

\* the calls of one kind among calls, in order
RECURSIVE callsOf(_, _)
callsOf(kind, calls) ==
    IF calls = <<>> THEN <<>>
    ELSE (IF Head(calls).call = kind THEN <<Head(calls)>> ELSE <<>>)
         \o callsOf(kind, Tail(calls))

\* a handler that regenerates by itself: it invokes the generate of the
\* manifest it has invalidated
FileEvent_regenerates(type, filePath) ==
    /\ pc = "serving"
    /\ type \in watcherHandlers
    /\ Len(loadCalls) + fileEvents < callBudget
    /\ LET calls == handleFileChange(filePath, resolvedManifests, moduleGraph)
           inv == callsOf("invalidateModule", calls)
           snd == callsOf("ws.send", calls)
       IN  /\ invalidated' = invalidated \o [k \in 1..Len(inv) |-> inv[k].id]
           /\ wsSent' = wsSent \o [k \in 1..Len(snd) |-> snd[k].payload]
           /\ lastEvent' = [path |-> filePath, graph |-> moduleGraph, calls |-> calls]
           /\ generateCalls' = generateCalls \o
                 [k \in 1..Len(inv) |->
                     [manifest |-> inv[k].manifest,
                      directory |-> resolvedManifests[inv[k].manifest].watchDir,
                      caller |-> "handleFileChange", state |-> "fulfilled",
                      result |-> generateResult(inv[k].manifest, Len(generateCalls) + k)]]
    /\ fileEvents' = fileEvents + 1
    /\ UNCHANGED <<pc, watcherAdded, watcherHandlers, moduleGraph>>
    /\ UNCHANGED <<topVars, cfgVars, loadCalls, hostErrors, buildVars>>

\* the watcher emits add, change or unlink with an absolute path
FileEvent(type, filePath) ==
    /\ pc = "serving"
    /\ type \in watcherHandlers
    /\ Len(loadCalls) + fileEvents < callBudget
    /\ LET calls == handleFileChange(filePath, resolvedManifests, moduleGraph)
           inv == callsOf("invalidateModule", calls)
           snd == callsOf("ws.send", calls)
       IN  /\ invalidated' = invalidated \o [k \in 1..Len(inv) |-> inv[k].id]
           /\ wsSent' = wsSent \o [k \in 1..Len(snd) |-> snd[k].payload]
           /\ lastEvent' = [path |-> filePath, graph |-> moduleGraph, calls |-> calls]
    /\ fileEvents' = fileEvents + 1
    /\ UNCHANGED <<pc, watcherAdded, watcherHandlers, moduleGraph>>
    /\ UNCHANGED <<topVars, cfgVars, loadVars, buildVars>>

(***************************************************************************)
(* resolveId, and the host's module graph                                  *)
(***************************************************************************)
\* resolveId(id): the resolved id, or Null for an id that is not virtual
resolveId(id) ==
    IF startsWith(id, VIRTUAL_MODULE_PREFIX)
    THEN RESOLVED_VIRTUAL_MODULE_PREFIX \o slice(id, Len(VIRTUAL_MODULE_PREFIX))
    ELSE Null

\* the host resolves an import through resolveId and makes the module's entry
\* in its graph
HostResolve(id) ==
    /\ pc = "serving"
    /\ resolveId(id) # Null
    /\ resolveId(id) \notin moduleGraph
    /\ moduleGraph' = moduleGraph \cup {resolveId(id)}
    /\ UNCHANGED <<pc, watcherAdded, watcherHandlers, invalidated, wsSent,
                   fileEvents, lastEvent>>
    /\ UNCHANGED <<topVars, cfgVars, loadVars, buildVars>>

(***************************************************************************)
(* load                                                                    *)
(***************************************************************************)
\* resolvedManifests.find(manifest => manifest.name === name): the index of
\* the first manifest of that name, 0 when there is none
RECURSIVE findFrom(_, _, _)
findFrom(i, manifests, name) ==
    IF i > Len(manifests) THEN 0
    ELSE IF manifests[i].name = name THEN i
    ELSE findFrom(i + 1, manifests, name)

\* a find that falls back to the first manifest when no name matches
findManifest_fallback(manifests, name) ==
    IF findFrom(1, manifests, name) = 0 /\ Len(manifests) > 0 THEN 1
    ELSE findFrom(1, manifests, name)

findManifest(manifests, name) == findFrom(1, manifests, name)

\* a load that keeps the data of the first generate invocation and uses it
\* for later loads
awaitedData_cached(m, g) == generateResult(m, 1)

\* const data = await Promise.resolve(generate(watchDir)), for the g-th
\* invocation of generate, made for manifest m
awaitedData(m, g) == generateResult(m, g)

\* the string load returns once generate has given data
loadSource(manifest, data, command) ==
    IF manifest.transform.present
    THEN moduleSource(transformData(data, manifest.transform, command))
    ELSE moduleSource(data)

\* load calls jsonTransform for this manifest
loadTransforms(manifest, command) ==
    manifest.transform.present /\ transformCalls(manifest.transform, command)

\* a load that keeps the failure of a manifest: once a load of the manifest
\* has failed, later loads of it fail without invoking generate
load_retainsError(id) ==
    /\ pc = "serving" \/ (pc = "resolved" /\ config.command = "build")
    /\ Len(loadCalls) + fileEvents < callBudget
    /\ LET name == slice(id, Len(RESOLVED_VIRTUAL_MODULE_PREFIX))
           m == findManifest(resolvedManifests, name)
           call == [id |-> id, manifest |-> 0, generate |-> 0, status |-> "returned",
                    error |-> "", source |-> Null, events |-> fileEvents,
                    after |-> Len(invalidated)]
           failed == {k \in 1..Len(loadCalls) :
                         loadCalls[k].manifest = m /\ loadCalls[k].generate # 0
                         /\ loadCalls[k].status = "rejected"}
       IN  IF ~startsWith(id, RESOLVED_VIRTUAL_MODULE_PREFIX)
           THEN /\ loadCalls' = Append(loadCalls, call)
                /\ UNCHANGED <<generateCalls, hostErrors>>
           ELSE IF m = 0
           THEN /\ hostErrors' = Append(hostErrors,
                       [message |-> "Manifest with name not found for virtual import",
                        name |-> name])
                /\ loadCalls' = Append(loadCalls,
                       [call EXCEPT !.status = "rejected", !.error = "not found"])
                /\ UNCHANGED generateCalls
           ELSE IF failed # {}
           THEN /\ loadCalls' = Append(loadCalls,
                       [call EXCEPT !.manifest = m, !.status = "rejected",
                                    !.error = "generate failed"])
                /\ UNCHANGED <<generateCalls, hostErrors>>
           ELSE /\ generateCalls' = Append(generateCalls,
                       [manifest |-> m, directory |-> resolvedManifests[m].watchDir,
                        caller |-> "load", state |-> "pending", result |-> <<>>])
                /\ loadCalls' = Append(loadCalls,
                       [call EXCEPT !.manifest = m, !.generate = Len(generateCalls) + 1,
                                    !.status = "pending"])
                /\ UNCHANGED hostErrors
    /\ UNCHANGED <<pc, topVars, cfgVars, serverVars, buildVars>>

\* load(id) up to its await: an id that is not a resolved virtual id returns
\* null; an unknown name goes to this.error, which throws; otherwise generate
\* is invoked with the resolved watchDir and load awaits its result
load(id) ==
    /\ pc = "serving" \/ (pc = "resolved" /\ config.command = "build")
    /\ Len(loadCalls) + fileEvents < callBudget
    /\ LET name == slice(id, Len(RESOLVED_VIRTUAL_MODULE_PREFIX))
           m == findManifest(resolvedManifests, name)
           call == [id |-> id, manifest |-> 0, generate |-> 0, status |-> "returned",
                    error |-> "", source |-> Null, events |-> fileEvents,
                    after |-> Len(invalidated)]
       IN  IF ~startsWith(id, RESOLVED_VIRTUAL_MODULE_PREFIX)
           THEN /\ loadCalls' = Append(loadCalls, call)
                /\ UNCHANGED <<generateCalls, hostErrors>>
           ELSE IF m = 0
           THEN /\ hostErrors' = Append(hostErrors,
                       [message |-> "Manifest with name not found for virtual import",
                        name |-> name])
                /\ loadCalls' = Append(loadCalls,
                       [call EXCEPT !.status = "rejected", !.error = "not found"])
                /\ UNCHANGED generateCalls
           ELSE /\ generateCalls' = Append(generateCalls,
                       [manifest |-> m, directory |-> resolvedManifests[m].watchDir,
                        caller |-> "load", state |-> "pending", result |-> <<>>])
                /\ loadCalls' = Append(loadCalls,
                       [call EXCEPT !.manifest = m, !.generate = Len(generateCalls) + 1,
                                    !.status = "pending"])
                /\ UNCHANGED hostErrors
    /\ UNCHANGED <<pc, topVars, cfgVars, serverVars, buildVars>>

\* what can end a pending load: generate resolves and load returns, generate
\* throws or rejects, or jsonTransform throws
settleOutcomes(manifest, command) ==
    {"fulfilled", "generate failed"}
    \cup (IF loadTransforms(manifest, command) THEN {"jsonTransform failed"} ELSE {})

\* the rest of load call k, from the await of generate on; the host enters a
\* module it has loaded in its graph
LoadSettle(k, outcome) ==
    /\ k \in 1..Len(loadCalls)
    /\ loadCalls[k].status = "pending"
    /\ LET m == loadCalls[k].manifest
           g == loadCalls[k].generate
           manifest == resolvedManifests[m]
           data == awaitedData(m, g)
       IN  /\ outcome \in settleOutcomes(manifest, config.command)
           /\ IF outcome = "generate failed"
              THEN /\ generateCalls' = [generateCalls EXCEPT ![g].state = "rejected"]
                   /\ loadCalls' = [loadCalls EXCEPT ![k].status = "rejected",
                                                     ![k].error = outcome]
                   /\ UNCHANGED moduleGraph
              ELSE /\ generateCalls' = [generateCalls EXCEPT ![g].state = "fulfilled",
                                                            ![g].result = generateResult(m, g)]
                   /\ IF outcome = "jsonTransform failed"
                      THEN /\ loadCalls' = [loadCalls EXCEPT ![k].status = "rejected",
                                                            ![k].error = outcome]
                           /\ UNCHANGED moduleGraph
                      ELSE /\ loadCalls' =
                                 [loadCalls EXCEPT ![k].status = "returned",
                                     ![k].source = loadSource(manifest, data, config.command)]
                           /\ moduleGraph' = IF pc = "serving"
                                             THEN moduleGraph \cup {loadCalls[k].id}
                                             ELSE moduleGraph
    /\ UNCHANGED <<pc, hostErrors, watcherAdded, watcherHandlers, invalidated, wsSent,
                   fileEvents, lastEvent>>
    /\ UNCHANGED <<topVars, cfgVars, buildVars>>

(***************************************************************************)
(* buildStart and generateManifestCache                                    *)
(***************************************************************************)
\* the task of a generateManifestCache call that awaits the g-th invocation of
\* generate
newTask(g) == [pc |-> "generate", generate |-> g, data |-> <<>>, error |-> "",
               promise |-> "pending"]

\* a task in which an awaited operation throws outside of any try block
taskFailed_uncaught(task, operation) ==
    [task EXCEPT !.pc = "done", !.error = operation, !.promise = "rejected"]

\* the task after the operation it awaits has thrown: the catch block ends the
\* call normally
taskFailed(task, operation) ==
    [task EXCEPT !.pc = "done", !.error = operation, !.promise = "fulfilled"]

\* console.error of the catch block, which names the manifest; the errors
\* reported after a task has become task
reported(errors, task, name) ==
    IF task.error # "" /\ task.promise = "fulfilled" THEN Append(errors, name) ELSE errors

\* a cache that stores the transformed data
cacheText_transformed(manifest, data, command) ==
    IF manifest.transform.present
    THEN JSONStringify(transformData(data, manifest.transform, command))
    ELSE JSONStringify(data)

\* JSON.stringify(data, null, 2), the text written to manifest.output
cacheText(manifest, data, command) == JSONStringify(data)

\* fs.writeFile(path, content) on the files of the disk
writeFile(disk, path, content) ==
    {f \in disk : f.path # path} \cup {[path |-> path, content |-> content]}

\* a buildStart without the test of cacheManifests
buildStart_ignoresCacheManifests ==
    /\ pc = "serving" \/ (pc = "resolved" /\ config.command = "build")
    /\ buildState = "idle"
    /\ tasks' = [i \in 1..Len(resolvedManifests) |-> newTask(Len(generateCalls) + i)]
    /\ generateCalls' = generateCalls \o
           [i \in 1..Len(resolvedManifests) |->
               [manifest |-> i, directory |-> resolvedManifests[i].watchDir,
                caller |-> "generateManifestCache", state |-> "pending",
                result |-> <<>>]]
    /\ buildState' = "running"
    /\ UNCHANGED <<pc, loadCalls, hostErrors, files, directories, consoleErrors>>
    /\ UNCHANGED <<topVars, cfgVars, serverVars>>

\* buildStart up to its await: with cacheManifests, generateManifestCache is
\* called for every manifest in turn, and each call invokes generate
buildStart ==
    /\ pc = "serving" \/ (pc = "resolved" /\ config.command = "build")
    /\ buildState = "idle"
    /\ IF options.cacheManifests
       THEN /\ tasks' = [i \in 1..Len(resolvedManifests) |-> newTask(Len(generateCalls) + i)]
            /\ generateCalls' = generateCalls \o
                   [i \in 1..Len(resolvedManifests) |->
                       [manifest |-> i, directory |-> resolvedManifests[i].watchDir,
                        caller |-> "generateManifestCache", state |-> "pending",
                        result |-> <<>>]]
            /\ buildState' = "running"
       ELSE /\ buildState' = "resolved"
            /\ UNCHANGED <<tasks, generateCalls>>
    /\ UNCHANGED <<pc, loadCalls, hostErrors, files, directories, consoleErrors>>
    /\ UNCHANGED <<topVars, cfgVars, serverVars>>

\* generateManifestCache of manifest i: await generate(watchDir)
TaskGenerate(i, ok) ==
    /\ i \in 1..Len(tasks)
    /\ tasks[i].pc = "generate"
    /\ LET g == tasks[i].generate
           task == IF ok
                   THEN [tasks[i] EXCEPT !.pc = "mkdir", !.data = generateResult(i, g)]
                   ELSE taskFailed(tasks[i], "generate")
       IN  /\ tasks' = [tasks EXCEPT ![i] = task]
           /\ generateCalls' =
                 [generateCalls EXCEPT ![g].state = IF ok THEN "fulfilled" ELSE "rejected",
                                       ![g].result = IF ok THEN generateResult(i, g) ELSE <<>>]
           /\ consoleErrors' = reported(consoleErrors, task, resolvedManifests[i].name)
    /\ UNCHANGED <<pc, loadCalls, hostErrors, buildState, files, directories>>
    /\ UNCHANGED <<topVars, cfgVars, serverVars>>

\* await fs.mkdir(path.dirname(output), { recursive: true })
TaskMkdir(i, ok) ==
    /\ i \in 1..Len(tasks)
    /\ tasks[i].pc = "mkdir"
    /\ LET task == IF ok THEN [tasks[i] EXCEPT !.pc = "writeFile"]
                   ELSE taskFailed(tasks[i], "mkdir")
       IN  /\ tasks' = [tasks EXCEPT ![i] = task]
           /\ directories' = IF ok
                             THEN directories \cup {dirname(resolvedManifests[i].output)}
                             ELSE directories
           /\ consoleErrors' = reported(consoleErrors, task, resolvedManifests[i].name)
    /\ UNCHANGED <<pc, loadVars, buildState, files>>
    /\ UNCHANGED <<topVars, cfgVars, serverVars>>

\* await fs.writeFile(output, JSON.stringify(data, null, 2))
TaskWriteFile(i, ok) ==
    /\ i \in 1..Len(tasks)
    /\ tasks[i].pc = "writeFile"
    /\ LET task == IF ok THEN [tasks[i] EXCEPT !.pc = "done", !.promise = "fulfilled"]
                   ELSE taskFailed(tasks[i], "writeFile")
       IN  /\ tasks' = [tasks EXCEPT ![i] = task]
           /\ files' = IF ok
                       THEN writeFile(files, resolvedManifests[i].output,
                                      cacheText(resolvedManifests[i], tasks[i].data,
                                                config.command))
                       ELSE files
           /\ consoleErrors' = reported(consoleErrors, task, resolvedManifests[i].name)
    /\ UNCHANGED <<pc, loadVars, buildState, directories>>
    /\ UNCHANGED <<topVars, cfgVars, serverVars>>

\* await Promise.all(...): buildStart rejects once a task has rejected, and
\* returns when every task has fulfilled
BuildStartSettle ==
    /\ buildState = "running"
    /\ IF \E i \in 1..Len(tasks) : tasks[i].promise = "rejected"
       THEN buildState' = "rejected"
       ELSE /\ \A i \in 1..Len(tasks) : tasks[i].promise = "fulfilled"
            /\ buildState' = "resolved"
    /\ UNCHANGED <<pc, loadVars, tasks, files, directories, consoleErrors>>
    /\ UNCHANGED <<topVars, cfgVars, serverVars>>

(***************************************************************************)
(* Inputs: options, host configurations, import ids and file paths.        *)
(* The project root is "/p"; names are "x", "y", "z".                      *)
(***************************************************************************)
NoTransform == [present |-> FALSE, apply |-> "", jsonTransform |-> FALSE]
Transform(apply, hasJsonTransform) ==
    [present |-> TRUE, apply |-> apply, jsonTransform |-> hasJsonTransform]

NoIgnore == [kind |-> "undefined", str |-> <<>>, arr |-> <<>>]
IgnoreString(s) == [kind |-> "string", str |-> s, arr |-> <<>>]
IgnoreArray(a) == [kind |-> "array", str |-> <<>>, arr |-> a]

Manifest(name, watchDir, watchIgnore, transform) ==
    [name |-> name, watchDir |-> watchDir, watchIgnore |-> watchIgnore,
     transform |-> transform]

\* every transform option a manifest can have
TransformPool ==
    {NoTransform} \cup {Transform(a, j) : a \in {"", "serve", "build"}, j \in BOOLEAN}

\* manifests of a dev server:
\*   x watching "a" but not "a/b", transformed at build time
\*   x watching "a/b"
\*   y watching "a", transformed always
\*   y watching "/c" but not "/c/d", transformed at serve time
\*   z watching nothing
WatchManifestPool ==
    { Manifest(<<120>>, <<97>>, IgnoreString(<<97, 47, 98>>), Transform("build", TRUE)),
      Manifest(<<120>>, <<97, 47, 98>>, NoIgnore, NoTransform),
      Manifest(<<121>>, <<97>>, NoIgnore, Transform("", TRUE)),
      Manifest(<<121>>, <<47, 99>>, IgnoreArray(<< <<47, 99, 47, 100>> >>),
               Transform("serve", TRUE)),
      Manifest(<<122>>, Null, NoIgnore, NoTransform) }

\* manifests that differ in their transform only: x watching "a" with every
\* transform option, and y watching nothing, transformed always
LoadManifestPool ==
    {Manifest(<<120>>, <<97>>, NoIgnore, t) : t \in TransformPool}
    \cup {Manifest(<<121>>, Null, NoIgnore, Transform("", TRUE))}

\* arrays of manifests of pool with distinct names
ManifestArrays(pool) ==
    {a \in DistinctArrays(pool, Cardinality({m.name : m \in pool})) :
        \A i, j \in 1..Len(a) : a[i].name = a[j].name => i = j}

OptionsOf(manifests) ==
    [manifests |-> manifests, outputDirectory |-> defaultOutputDirectory,
     cacheManifests |-> TRUE, rootDirectory |-> Null]

\* the resolved configuration of the host: root "/p", publicDir "/p/public"
HostConfig(command) ==
    [command |-> command, root |-> <<47, 112>>,
     publicDir |-> <<47, 112, 47, 112, 117, 98, 108, 105, 99>>]

\* import ids: the virtual modules x and y, and "./app.js"
ImportIds ==
    {VIRTUAL_MODULE_PREFIX \o n : n \in {<<120>>, <<121>>}}
    \cup {<<46, 47, 97, 112, 112, 46, 106, 115>>}

\* ids handed to load: the resolved virtual ids, and "/p/app.js"
LoadIds ==
    {resolveId(id) : id \in {i \in ImportIds : resolveId(i) # Null}}
    \cup {<<47, 112, 47, 97, 112, 112, 46, 106, 115>>}

\* paths of watcher events:
\* "/p/a/f", "/p/a/b/f", "/p/a-/f", "/p/a/bb", "/c/f", "/c/d/f"
EventPaths ==
    { <<47, 112, 47, 97, 47, 102>>,
      <<47, 112, 47, 97, 47, 98, 47, 102>>,
      <<47, 112, 47, 97, 45, 47, 102>>,
      <<47, 112, 47, 97, 47, 98, 98>>,
      <<47, 99, 47, 102>>,
      <<47, 99, 47, 100, 47, 102>> }

(***************************************************************************)
(* Spec: a run of the host with the plugin.  The host resolves the         *)
(* configuration for the command serve or build.  Serving, it configures   *)
(* the server and then resolves imports, loads modules and delivers        *)
(* watcher events in any order; building, it loads modules.                *)
(***************************************************************************)
Init ==
    /\ pc = "constructed"
    /\ options \in {OptionsOf(m) : m \in ManifestArrays(WatchManifestPool)
                                          \cup ManifestArrays(LoadManifestPool)}
    /\ callBudget = MaxCalls
    /\ InitTopVars /\ InitCfgVars /\ InitServerVars /\ InitLoadVars /\ InitBuildVars

Next ==
    \/ \E command \in {"serve", "build"} : configResolved(HostConfig(command))
    \/ configureServer
    \/ \E id \in ImportIds : HostResolve(id)
    \/ \E id \in LoadIds : load(id)
    \/ \E k \in 1..MaxCalls, outcome \in {"fulfilled", "generate failed", "jsonTransform failed"} :
          LoadSettle(k, outcome)
    \/ \E type \in {"add", "change", "unlink"}, filePath \in EventPaths :
          FileEvent(type, filePath)

Spec == Init /\ [][Next]_vars

(***************************************************************************)
(* Absolute directory paths used as inputs of returnTopLevelPaths:         *)
(* "/a", "/a-", "/a-/b", "/a/b", "/a/b/c", "/ab", "/c", "/c/d"             *)
(***************************************************************************)
DirPool ==
    { <<47, 97>>,
      <<47, 97, 45>>,
      <<47, 97, 45, 47, 98>>,
      <<47, 97, 47, 98>>,
      <<47, 97, 47, 98, 47, 99>>,
      <<47, 97, 98>>,
      <<47, 99>>,
      <<47, 99, 47, 100>> }

(***************************************************************************)
(* SpecTop: returnTopLevelPaths applied to every array of distinct         *)
(* directories.                                                            *)
(***************************************************************************)
InitTop ==
    /\ pc = "call"
    /\ filePathArray \in DistinctArrays(DirPool, MaxPaths)
    /\ topLevelDirectories = <<>>
    /\ options = NoOptions
    /\ callBudget = 0
    /\ InitCfgVars /\ InitServerVars /\ InitLoadVars /\ InitBuildVars

CallReturnTopLevelPaths ==
    /\ pc = "call"
    /\ topLevelDirectories' = returnTopLevelPaths(filePathArray)
    /\ pc' = "returned"
    /\ UNCHANGED <<filePathArray, cfgVars, serverVars, loadVars, buildVars>>

NextTop == CallReturnTopLevelPaths

SpecTop == InitTop /\ [][NextTop]_vars

\* d lies in the directory tree below a (a is a proper ancestor directory of d)
IsProperAncestor(a, d) ==
    /\ a # d
    /\ startsWith(d, IF a = sep THEN a ELSE a \o sep)

\* the members of S that have no proper ancestor directory in S
TopLevelOf(S) == {d \in S : \A a \in S : ~IsProperAncestor(a, d)}

\* C5: returnTopLevelPaths(S) returns exactly the members of S that have no
\* proper ancestor directory in S: no returned path is a descendant of another
\* returned path, and every member of S is equal to or below a returned path.
C5_TopLevelExact ==
    pc = "returned" =>
        /\ Range(topLevelDirectories) = TopLevelOf(Range(filePathArray))
        /\ \A a, d \in Range(topLevelDirectories) : ~IsProperAncestor(a, d)
        /\ \A d \in Range(filePathArray) :
              \E a \in Range(topLevelDirectories) : a = d \/ IsProperAncestor(a, d)

(***************************************************************************)
(* SpecBuild: the cache pass.  The host resolves the configuration,        *)
(* configures the server when serving, and calls buildStart; the tasks of  *)
(* buildStart run interleaved, each awaited operation succeeding or        *)
(* failing.                                                                *)
(***************************************************************************)
\* manifests of a cache pass:
\*   x watching "a", transformed always
\*   y watching nothing, transformed at build time
\*   z watching "/c", not transformed
BuildManifestPool ==
    { Manifest(<<120>>, <<97>>, NoIgnore, Transform("", TRUE)),
      Manifest(<<121>>, Null, NoIgnore, Transform("build", TRUE)),
      Manifest(<<122>>, <<47, 99>>, NoIgnore, NoTransform) }

\* a cache file an earlier run has left: "/p/.manifests/x.json" holding "[]"
StaleFiles ==
    { [path |-> <<47, 112, 47>> \o defaultOutputDirectory \o <<47>> \o jsonFileName(<<120>>),
       content |-> JSONStringify(<<>>)] }

InitBuild ==
    /\ pc = "constructed"
    /\ options \in {[OptionsOf(m) EXCEPT !.cacheManifests = c] :
                       m \in ManifestArrays(BuildManifestPool), c \in BOOLEAN}
    /\ callBudget = 0
    /\ InitTopVars /\ InitCfgVars /\ InitServerVars /\ InitLoadVars
    /\ buildState = "idle"
    /\ tasks = <<>>
    /\ files \in SUBSET StaleFiles
    /\ directories = {}
    /\ consoleErrors = <<>>

NextBuild ==
    \/ \E command \in {"serve", "build"} : configResolved(HostConfig(command))
    \/ configureServer
    \/ buildStart
    \/ \E i \in 1..Cardinality(BuildManifestPool), ok \in BOOLEAN : TaskGenerate(i, ok)
    \/ \E i \in 1..Cardinality(BuildManifestPool), ok \in BOOLEAN : TaskMkdir(i, ok)
    \/ \E i \in 1..Cardinality(BuildManifestPool), ok \in BOOLEAN : TaskWriteFile(i, ok)
    \/ BuildStartSettle

SpecBuild == InitBuild /\ [][NextBuild]_vars

(***************************************************************************)
(* SpecWatch: the registration of watch directories.  The host resolves    *)
(* the configuration and, when serving, configures the server, for every   *)
(* array of up to three manifests that differ in their watchDir.           *)
(***************************************************************************)
\* watchDir options: none, "a", "public/i", "/c", "/c-", "/c/d", "/p-o"
WatchDirPool ==
    { Null,
      <<97>>,
      <<112, 117, 98, 108, 105, 99, 47, 105>>,
      <<47, 99>>,
      <<47, 99, 45>>,
      <<47, 99, 47, 100>>,
      <<47, 112, 45, 111>> }

\* manifests x, y and z with each of the watchDir options
DirManifestPool ==
    {Manifest(n, d, NoIgnore, NoTransform) : n \in {<<120>>, <<121>>, <<122>>}, d \in WatchDirPool}

InitWatch ==
    /\ pc = "constructed"
    /\ options \in {OptionsOf(m) : m \in ManifestArrays(DirManifestPool)}
    /\ callBudget = 0
    /\ InitTopVars /\ InitCfgVars /\ InitServerVars /\ InitLoadVars /\ InitBuildVars

NextWatch ==
    \/ \E command \in {"serve", "build"} : configResolved(HostConfig(command))
    \/ configureServer

SpecWatch == InitWatch /\ [][NextWatch]_vars

\* the distinct non-null watchDir values of the registered manifests
WatchDirs == {resolvedManifests[i].watchDir : i \in 1..Len(resolvedManifests)} \ {Null}

\* d is the directory base or lies in the directory tree below it
LiesUnder(base, d) == d = base \/ IsProperAncestor(base, d)

\* d lies under the host's project root or public assets directory
HostWatched(d) == LiesUnder(config.root, d) \/ LiesUnder(config.publicDir, d)

\* C11: in configureServer every top-level watch directory that does not lie
\* under the host's project root or public assets directory is registered with
\* the watcher, a directory that lies under one of them is not registered, and
\* no two registered directories are nested in one another.
C11_RegistersOutsideDefaults ==
    pc = "serving" =>
        /\ \A d \in TopLevelOf(WatchDirs) : ~HostWatched(d) => d \in watcherAdded
        /\ \A d \in WatchDirs : HostWatched(d) => d \notin watcherAdded
        /\ \A a, d \in watcherAdded : ~IsProperAncestor(a, d)

(***************************************************************************)
(* SpecCache: the cache pass for any array of manifests, two manifests of  *)
(* one name included: viteVirtualManifests and configResolved take the     *)
(* manifests array as it is given and compare no names.                    *)
(***************************************************************************)
\* manifests of a cache pass that may share a name:
\*   x watching "a"
\*   x watching "/c", transformed always
\*   y watching nothing
CacheManifestPool ==
    { Manifest(<<120>>, <<97>>, NoIgnore, NoTransform),
      Manifest(<<120>>, <<47, 99>>, NoIgnore, Transform("", TRUE)),
      Manifest(<<121>>, Null, NoIgnore, NoTransform) }

InitCache ==
    /\ pc = "constructed"
    /\ options \in {[OptionsOf(m) EXCEPT !.cacheManifests = c] :
                       m \in DistinctArrays(CacheManifestPool, Cardinality(CacheManifestPool)),
                       c \in BOOLEAN}
    /\ callBudget = 0
    /\ InitTopVars /\ InitCfgVars /\ InitServerVars /\ InitLoadVars
    /\ buildState = "idle"
    /\ tasks = <<>>
    /\ files \in SUBSET StaleFiles
    /\ directories = {}
    /\ consoleErrors = <<>>

SpecCache == InitCache /\ [][NextBuild]_vars

(***************************************************************************)
(* SpecReload: a longer run of a dev server with one or two manifests: the *)
(* host makes one call more than in Spec, so that an event, the load that  *)
(* follows it and a further event fit in.                                  *)
(***************************************************************************)
\* manifests of a reloading page:
\*   x watching "a", not transformed
\*   y watching "a/b", transformed always
ReloadManifestPool ==
    { Manifest(<<120>>, <<97>>, NoIgnore, NoTransform),
      Manifest(<<121>>, <<97, 47, 98>>, NoIgnore, Transform("", TRUE)) }

InitReload ==
    /\ pc = "constructed"
    /\ options \in {OptionsOf(m) : m \in ManifestArrays(ReloadManifestPool)}
    /\ callBudget = MaxCalls + 1
    /\ InitTopVars /\ InitCfgVars /\ InitServerVars /\ InitLoadVars /\ InitBuildVars

SpecReload == InitReload /\ [][Next]_vars

(***************************************************************************)
(* SpecHost: a run of the host in which every hook is called: the          *)
(* configuration is resolved, the server configured when serving, and      *)
(* buildStart and its tasks run interleaved with the resolving of imports, *)
(* loads and watcher events.  cacheManifests is true or false.             *)
(***************************************************************************)
InitHost ==
    /\ pc = "constructed"
    /\ options \in {[OptionsOf(m) EXCEPT !.cacheManifests = c] :
                       m \in ManifestArrays(ReloadManifestPool), c \in BOOLEAN}
    /\ callBudget = MaxHostCalls
    /\ InitTopVars /\ InitCfgVars /\ InitServerVars /\ InitLoadVars
    /\ buildState = "idle"
    /\ tasks = <<>>
    /\ files \in SUBSET StaleFiles
    /\ directories = {}
    /\ consoleErrors = <<>>

NextHost ==
    \/ \E command \in {"serve", "build"} : configResolved(HostConfig(command))
    \/ configureServer
    \/ \E id \in ImportIds : HostResolve(id)
    \/ \E id \in LoadIds : load(id)
    \/ \E k \in 1..MaxCalls, outcome \in {"fulfilled", "generate failed", "jsonTransform failed"} :
          LoadSettle(k, outcome)
    \/ \E type \in {"add", "change", "unlink"}, filePath \in EventPaths :
          FileEvent(type, filePath)
    \/ buildStart
    \/ \E i \in 1..Cardinality(ReloadManifestPool), ok \in BOOLEAN : TaskGenerate(i, ok)
    \/ \E i \in 1..Cardinality(ReloadManifestPool), ok \in BOOLEAN : TaskMkdir(i, ok)
    \/ \E i \in 1..Cardinality(ReloadManifestPool), ok \in BOOLEAN : TaskWriteFile(i, ok)
    \/ BuildStartSettle

SpecHost == InitHost /\ [][NextHost]_vars

(***************************************************************************)
(* Properties of the watcher handler (Spec).                               *)
(***************************************************************************)
\* d is a prefix of the path p (d a string, not null)
IsPrefixOf(d, p) ==
    /\ d # Null
    /\ Len(d) <= Len(p)
    /\ \A k \in 1..Len(d) : p[k] = d[k]

\* p has the watchDir of manifest i as a prefix and no watchIgnore entry of it
Matches(i, p) ==
    /\ IsPrefixOf(resolvedManifests[i].watchDir, p)
    /\ \A k \in 1..Len(resolvedManifests[i].watchIgnore) :
          ~IsPrefixOf(resolvedManifests[i].watchIgnore[k], p)

\* the id of the virtual module of manifest i
ModuleOf(i) == RESOLVED_VIRTUAL_MODULE_PREFIX \o resolvedManifests[i].name

Manifests == 1..Len(resolvedManifests)

\* an event has been handled
EventHandled == lastEvent.path # Null

\* the ids the handler of the last event invalidated, and what it sent
InvalidatedByLast ==
    {lastEvent.calls[k].id : k \in {n \in 1..Len(lastEvent.calls) :
                                       lastEvent.calls[n].call = "invalidateModule"}}
SendsOfLast ==
    {k \in 1..Len(lastEvent.calls) : lastEvent.calls[k].call = "ws.send"}
InvalidationsOfLast ==
    {k \in 1..Len(lastEvent.calls) : lastEvent.calls[k].call = "invalidateModule"}

\* manifest i matches the last event and its module was in the graph then
Live(i) == Matches(i, lastEvent.path) /\ ModuleOf(i) \in lastEvent.graph

\* C1: the handler of a file event at path p invalidates the virtual module of
\* a manifest m only if m.watchDir is a prefix of p and no entry of
\* m.watchIgnore is a prefix of p.
C1_InvalidatesOnlyMatching ==
    EventHandled =>
        \A i \in Manifests :
            ModuleOf(i) \in InvalidatedByLast => Matches(i, lastEvent.path)

\* C1 witness: an event under an ignored prefix of a manifest whose module is
\* in the graph, which invalidated another manifest and not that one
C1_Witness ==
    /\ EventHandled
    /\ \E i \in Manifests :
          /\ IsPrefixOf(resolvedManifests[i].watchDir, lastEvent.path)
          /\ ~Matches(i, lastEvent.path)
          /\ ModuleOf(i) \in lastEvent.graph
          /\ ModuleOf(i) \notin InvalidatedByLast
    /\ InvalidatedByLast # {}

ManifestLoads == {k \in 1..Len(loadCalls) : loadCalls[k].manifest # 0}

MatchingLast == {i \in Manifests : Matches(i, lastEvent.path)}
LiveLast == {i \in Manifests : Live(i)}
First(S) == CHOOSE i \in S : \A j \in S : i <= j

C4_AtMostOnePerEvent ==
    /\ Cardinality(InvalidationsOfLast) <= 1
    /\ Cardinality(SendsOfLast) <= 1
    /\ Len(invalidated) <= fileEvents
    /\ Len(wsSent) <= fileEvents

\* C4 witness: two events were handled, the last of them matching two
\* manifests with their modules in the graph, and one invalidation was made
C4_Witness ==
    /\ fileEvents = 2
    /\ Cardinality(LiveLast) >= 2
    /\ Cardinality(InvalidationsOfLast) = 1
    /\ Cardinality(SendsOfLast) = 1

(***************************************************************************)
(* Properties of load (Spec).                                              *)
(***************************************************************************)
\* the text with its line feeds and spaces removed
RECURSIVE withoutSpace(_)
withoutSpace(text) ==
    IF text = <<>> THEN <<>>
    ELSE (IF Head(text) \in {10, 32} THEN <<>> ELSE <<Head(text)>>) \o withoutSpace(Tail(text))

\* the value a module text `export default [..];` exports: the numbers between
\* the brackets, read back from their digits
ExportedValue(source) ==
    LET json == withoutSpace(SubSeq(source, 16, Len(source) - 1))
        inner == SubSeq(json, 2, Len(json) - 1)
    IN  [i \in 1..((Len(inner) + 1) \div 2) |-> inner[2 * i - 1] - 48]

\* the load calls that have returned the source of a manifest
ReturnedLoads == {k \in ManifestLoads : loadCalls[k].status = "returned"}

\* what the generate invocation of load call k returned
GeneratedFor(k) == generateCalls[loadCalls[k].generate].result

\* the transform of the manifest of load call k
TransformOf(k) == resolvedManifests[loadCalls[k].manifest].transform

\* the transform of load call k is to be applied under the current command
Applies(k) ==
    /\ TransformOf(k).present
    /\ TransformOf(k).jsonTransform
    /\ TransformOf(k).apply \in {"", config.command}

\* C6: a load of a registered manifest under command c exports
\* jsonTransform(generate(watchDir)) exactly when the manifest has a transform
\* with a jsonTransform and transform.apply is unset or equals c, and the
\* untransformed generate(watchDir) otherwise.
C6_TransformExactlyWhenApplicable ==
    \A k \in ReturnedLoads :
        /\ jsonTransform(GeneratedFor(k)) # GeneratedFor(k)
        /\ ExportedValue(loadCalls[k].source) =
              IF Applies(k) THEN jsonTransform(GeneratedFor(k)) ELSE GeneratedFor(k)

\* C6 witness: while serving, a load of a manifest with apply "build" has
\* returned its data untransformed and a load of a manifest with apply unset
\* has returned it transformed
C6_Witness ==
    /\ config.command = "serve"
    /\ \E k \in ReturnedLoads :
          /\ TransformOf(k).jsonTransform /\ TransformOf(k).apply = "build"
          /\ ExportedValue(loadCalls[k].source) = GeneratedFor(k)
    /\ \E k \in ReturnedLoads :
          /\ TransformOf(k).jsonTransform /\ TransformOf(k).apply = ""
          /\ ExportedValue(loadCalls[k].source) = jsonTransform(GeneratedFor(k))

\* the invocations of generate that load calls have made
LoadGenerates == {g \in 1..Len(generateCalls) : generateCalls[g].caller = "load"}

\* the load calls of a resolved virtual id whose name no manifest has
UnknownLoads ==
    {k \in 1..Len(loadCalls) :
        /\ IsPrefixOf(RESOLVED_VIRTUAL_MODULE_PREFIX, loadCalls[k].id)
        /\ \A i \in Manifests : ModuleOf(i) # loadCalls[k].id}

\* C8: loading a resolved virtual id whose name matches no registered manifest
\* is a hard error: the host's error channel receives a message naming the
\* missing manifest, the load returns no source, and no generate or
\* jsonTransform is invoked for it.
C8_UnknownNameIsError ==
    /\ \A k \in UnknownLoads :
          /\ loadCalls[k].status = "rejected"
          /\ loadCalls[k].error = "not found"
          /\ loadCalls[k].source = Null
          /\ loadCalls[k].generate = 0
          /\ \E e \in 1..Len(hostErrors) :
                RESOLVED_VIRTUAL_MODULE_PREFIX \o hostErrors[e].name = loadCalls[k].id
    /\ Len(hostErrors) = Cardinality(UnknownLoads)
    /\ UnknownLoads \cap ManifestLoads = {}
    /\ Cardinality(LoadGenerates) = Cardinality(ManifestLoads)

\* C8 witness: a load of an unknown name has failed while a manifest is
\* registered and has been loaded
C8_Witness ==
    /\ UnknownLoads # {}
    /\ ReturnedLoads # {}

\* C9: every load call for a registered manifest invokes that manifest's
\* generate exactly once, with its resolved watchDir, and returns source built
\* from the result of that invocation and of no earlier one: the n-th load
\* returns the result of the n-th generate invocation that loads have made.
C9_LoadGeneratesAfresh ==
    /\ Cardinality(LoadGenerates) = Cardinality(ManifestLoads)
    /\ \A k \in ManifestLoads :
          /\ loadCalls[k].generate \in LoadGenerates
          /\ Cardinality({g \in LoadGenerates : g <= loadCalls[k].generate})
                = Cardinality({j \in ManifestLoads : j <= k})
          /\ generateCalls[loadCalls[k].generate].manifest = loadCalls[k].manifest
          /\ generateCalls[loadCalls[k].generate].directory =
                resolvedManifests[loadCalls[k].manifest].watchDir
    /\ \A k \in ReturnedLoads :
          /\ ExportedValue(loadCalls[k].source)
                \in {GeneratedFor(k), jsonTransform(GeneratedFor(k))}
          /\ \A g \in 1..Len(generateCalls) :
                g # loadCalls[k].generate =>
                    /\ generateCalls[g].result # GeneratedFor(k)
                    /\ ExportedValue(loadCalls[k].source)
                          \notin {generateCalls[g].result, jsonTransform(generateCalls[g].result)}

\* C9 witness: two loads of the same manifest have returned, with different
\* sources
C9_Witness ==
    \E j, k \in ReturnedLoads :
        /\ j < k
        /\ loadCalls[j].manifest = loadCalls[k].manifest
        /\ loadCalls[j].source # loadCalls[k].source

(***************************************************************************)
(* Properties of the cache pass (SpecBuild).                               *)
(***************************************************************************)
Tasks == 1..Len(tasks)

\* the task of manifest i has ended, by a failure or without one
Failed(i) == tasks[i].pc = "done" /\ tasks[i].error # ""
Succeeded(i) == tasks[i].pc = "done" /\ tasks[i].error = ""

\* the contents of the files at the output path of manifest i
CacheOf(i) == {f.content : f \in {h \in files : h.path = resolvedManifests[i].output}}

\* the numbers of a JSON text, read back from their digits
ParsedJson(text) ==
    LET json == withoutSpace(text)
        inner == SubSeq(json, 2, Len(json) - 1)
    IN  [i \in 1..((Len(inner) + 1) \div 2) |-> inner[2 * i - 1] - 48]

\* what the generate invocation of the task of manifest i returned
GeneratedBy(i) == generateCalls[tasks[i].generate].result

\* C7: in the cache pass a failure of one manifest's generate, directory
\* creation or file write is caught for that manifest only: every manifest
\* whose own operations succeed has its cache file written, the cache file of
\* a failing manifest is left unwritten, an error naming it is reported, and
\* buildStart completes without failing.
C7_FailureIsolated ==
    /\ buildState # "rejected"
    /\ \A i \in Tasks : tasks[i].promise # "rejected"
    /\ \A i \in Tasks :
          Succeeded(i) =>
              /\ CacheOf(i) = {JSONStringify(GeneratedBy(i))}
              /\ GeneratedBy(i) # <<>>
    /\ \A i \in Tasks :
          Failed(i) =>
              /\ \A f \in files : f.path = resolvedManifests[i].output => f \in StaleFiles
              /\ \E e \in 1..Len(consoleErrors) : consoleErrors[e] = resolvedManifests[i].name
    /\ \A e \in 1..Len(consoleErrors) :
          \E i \in Tasks : Failed(i) /\ consoleErrors[e] = resolvedManifests[i].name
    /\ buildState = "resolved" => \A i \in Tasks : Succeeded(i) \/ Failed(i)

\* C7 witness: buildStart has returned after a pass of three manifests in
\* which the second failed and the first and the third wrote their files
C7_Witness ==
    /\ buildState = "resolved"
    /\ Len(tasks) = 3
    /\ Succeeded(1) /\ Failed(2) /\ Succeeded(3)
    /\ CacheOf(1) # {} /\ CacheOf(2) = {} /\ CacheOf(3) # {}

\* the transform of manifest i changes data under the current command
TransformApplies(i) ==
    /\ resolvedManifests[i].transform.present
    /\ resolvedManifests[i].transform.jsonTransform
    /\ resolvedManifests[i].transform.apply \in {"", config.command}

\* C10: the cache file buildStart writes for a manifest holds the raw output
\* of generate(watchDir): the manifest's transform is never applied to it,
\* whatever transform.apply and the command are.
C10_CacheIsRaw ==
    \A i \in Tasks :
        Succeeded(i) =>
            \A text \in CacheOf(i) :
                /\ ParsedJson(text) = GeneratedBy(i)
                /\ ParsedJson(text) # jsonTransform(GeneratedBy(i))

\* C10 witness: a cache file has been written for a manifest whose transform
\* applies under the current command
C10_Witness ==
    \E i \in Tasks :
        /\ Succeeded(i)
        /\ TransformApplies(i)
        /\ CacheOf(i) # {}

(***************************************************************************)
(* Directory containment in the watcher handler (Spec).                    *)
(***************************************************************************)
\* the path p is the directory d or lies in the directory tree below it
InTree(d, p) == d # Null /\ LiesUnder(d, p)

\* p is inside the watchDir tree of manifest i and inside no watchIgnore entry
\* of it
TreeMatches(i, p) ==
    /\ InTree(resolvedManifests[i].watchDir, p)
    /\ \A k \in 1..Len(resolvedManifests[i].watchIgnore) :
          ~InTree(resolvedManifests[i].watchIgnore[k], p)

\* C15: a file event at a path that is not inside the watchDir directory tree
\* of a manifest never invalidates that manifest, also when the path shares
\* the watchDir string as a prefix; and a path that shares only a string
\* prefix with a watchIgnore entry, without being inside it, is not treated as
\* ignored: the event invalidates when the module of the manifest is in the
\* graph.
C15_TreeContainment ==
    EventHandled =>
        \A i \in Manifests :
            /\ ModuleOf(i) \in InvalidatedByLast =>
                  InTree(resolvedManifests[i].watchDir, lastEvent.path)
            /\ (TreeMatches(i, lastEvent.path) /\ ModuleOf(i) \in lastEvent.graph) =>
                  InvalidatedByLast # {}

(***************************************************************************)
(* Pairing of invalidation and reload (Spec).                              *)
(***************************************************************************)
\* C17: invalidation and reload are paired: as many full-reload messages have
\* been sent as invalidateModule calls made, a full-reload is sent only by the
\* handler of an event that invalidated a module, after that invalidation, and
\* it is a broadcast: type "full-reload", path "*".
C17_InvalidationReloadPaired ==
    /\ Len(wsSent) = Len(invalidated)
    /\ \A n \in 1..Len(wsSent) :
          wsSent[n].type = "full-reload" /\ wsSent[n].path = <<42>>
    /\ Cardinality(SendsOfLast) = Cardinality(InvalidationsOfLast)
    /\ \A k \in SendsOfLast :
          /\ lastEvent.calls[k].payload.type = "full-reload"
          /\ lastEvent.calls[k].payload.path = <<42>>
          /\ \E n \in InvalidationsOfLast :
                n < k /\ lastEvent.calls[n].manifest = lastEvent.calls[k].manifest

\* C17 witness: one event has invalidated a module and sent a reload, and a
\* later event that matches a manifest whose module is not in the graph has
\* done neither
C17_Witness ==
    /\ fileEvents = 2
    /\ Len(invalidated) = 1
    /\ Len(wsSent) = 1
    /\ MatchingLast # {}
    /\ lastEvent.calls = <<>>

(***************************************************************************)
(* Properties of configureServer (Spec).                                   *)
(***************************************************************************)
\* C12: if no registered manifest has a watchDir, configureServer registers no
\* directory with the watcher and subscribes no handler, so that no file event
\* is handled and nothing is invalidated or reloaded; if some manifest has a
\* watchDir, the handler is subscribed to all three of add, change and unlink.
C12_NoWatchDirNoSubscription ==
    /\ pc # "serving" => watcherHandlers = {} /\ watcherAdded = {}
    /\ pc = "serving" =>
          IF WatchDirs = {}
          THEN /\ watcherAdded = {}
               /\ watcherHandlers = {}
               /\ fileEvents = 0
               /\ invalidated = <<>>
               /\ wsSent = <<>>
          ELSE watcherHandlers = {"add", "change", "unlink"}

\* C12 witness: a server whose manifests have no watchDir, with the virtual
\* module of one of them loaded and in the module graph
C12_Witness ==
    /\ pc = "serving"
    /\ Len(resolvedManifests) >= 1
    /\ WatchDirs = {}
    /\ \E i \in Manifests : ModuleOf(i) \in moduleGraph
    /\ ReturnedLoads # {}

(***************************************************************************)
(* Failures of load (Spec).                                                *)
(***************************************************************************)
\* the load calls of a manifest that have failed
RejectedLoads == {k \in ManifestLoads : loadCalls[k].status = "rejected"}

\* C16: a load whose generate or jsonTransform fails is rejected and returns
\* no source, and no error state is kept: every load of a manifest, also one
\* made after a failed load of the same or of another manifest, invokes
\* generate again, fails only through its own generate or jsonTransform, and
\* returns its source when both succeed.
C16_FailureNotRetained ==
    \A k \in ManifestLoads :
        LET g == loadCalls[k].generate
        IN  /\ g \in LoadGenerates
            /\ generateCalls[g].manifest = loadCalls[k].manifest
            /\ \A j \in ManifestLoads : j # k => loadCalls[j].generate # g
            /\ loadCalls[k].status = "pending" <=> generateCalls[g].state = "pending"
            /\ generateCalls[g].state = "rejected" =>
                  /\ loadCalls[k].status = "rejected"
                  /\ loadCalls[k].error = "generate failed"
            /\ loadCalls[k].status = "rejected" =>
                  /\ loadCalls[k].source = Null
                  /\ \/ /\ loadCalls[k].error = "generate failed"
                        /\ generateCalls[g].state = "rejected"
                     \/ /\ loadCalls[k].error = "jsonTransform failed"
                        /\ generateCalls[g].state = "fulfilled"
                        /\ Applies(k)
            /\ loadCalls[k].status = "returned" =>
                  /\ generateCalls[g].state = "fulfilled"
                  /\ ExportedValue(loadCalls[k].source) =
                        IF Applies(k) THEN jsonTransform(GeneratedFor(k)) ELSE GeneratedFor(k)

\* C16 witness: a load of a manifest has failed in its jsonTransform or its
\* generate, and a later load of the same manifest has returned its source
C16_Witness ==
    \E j, k \in ManifestLoads :
        /\ j < k
        /\ loadCalls[j].manifest = loadCalls[k].manifest
        /\ loadCalls[j].status = "rejected"
        /\ loadCalls[j].source = Null
        /\ loadCalls[k].status = "returned"
        /\ loadCalls[k].source # Null

(***************************************************************************)
(* Properties of the order of events and loads (SpecReload).               *)
(***************************************************************************)
\* load call k regenerates after an event: an event has invalidated its module
\* before the call, and no load of that module was made in between
Regenerates(k) ==
    \E n \in 1..loadCalls[k].after :
        /\ invalidated[n] = loadCalls[k].id
        /\ \A j \in 1..(k - 1) :
              loadCalls[j].id = loadCalls[k].id => loadCalls[j].after < n

\* C13 as stated: handling one event runs to completion, including the
\* regeneration it causes, before the next event is processed: no event
\* handler runs while a regeneration caused by an earlier event is in flight.
C13_NoEventDuringRegeneration ==
    \A k \in ManifestLoads :
        (loadCalls[k].status = "pending" /\ Regenerates(k)) =>
            fileEvents = loadCalls[k].events

\* C13: events are handled one at a time in arrival order, and the handler of
\* one event runs to completion, its invalidation and its full-reload message
\* made, before the next event is handled; the handler invokes no generate and
\* starts, ends and awaits no load, and nothing but a handler invalidates or
\* sends.
C13_HandlerRunsToCompletion ==
    [][ /\ fileEvents' # fileEvents =>
              /\ fileEvents' = fileEvents + 1
              /\ invalidated' = invalidated \o
                    [k \in 1..Len(callsOf("invalidateModule", lastEvent'.calls)) |->
                        callsOf("invalidateModule", lastEvent'.calls)[k].id]
              /\ wsSent' = wsSent \o
                    [k \in 1..Len(callsOf("ws.send", lastEvent'.calls)) |->
                        callsOf("ws.send", lastEvent'.calls)[k].payload]
              /\ lastEvent'.calls = handleFileChange(lastEvent'.path, resolvedManifests,
                                                     moduleGraph)
              /\ loadCalls' = loadCalls
              /\ generateCalls' = generateCalls
        /\ fileEvents' = fileEvents =>
              /\ invalidated' = invalidated
              /\ wsSent' = wsSent
              /\ lastEvent' = lastEvent ]_vars

\* C13 witness: an event was handled, and invalidated a module, while a load
\* that regenerates after an earlier event was awaiting its generate, as it
\* still is
C13_Witness ==
    /\ fileEvents >= 2
    /\ InvalidatedByLast # {}
    /\ \E k \in ManifestLoads :
          /\ loadCalls[k].status = "pending"
          /\ Regenerates(k)
          /\ loadCalls[k].events < fileEvents

(***************************************************************************)
(* Properties of the cache pass for any array of manifests (SpecCache).    *)
(***************************************************************************)
\* the task of manifest i has called fs.writeFile and awaits it
Writing(i) == tasks[i].pc = "writeFile"

\* C14: during the cache pass no two tasks ever write the same cache file: no
\* two tasks have a write of the same file in flight at the same time, under
\* any interleaving of the tasks and for any array of manifests.
C14_NoWriteWriteRace ==
    \A i, j \in Tasks :
        (i # j /\ Writing(i) /\ Writing(j)) =>
            resolvedManifests[i].output # resolvedManifests[j].output

(***************************************************************************)
(* Writers of the disk cache (SpecHost).                                   *)
(***************************************************************************)
\* the generate invocations made by generateManifestCache
CacheGenerates ==
    {g \in 1..Len(generateCalls) : generateCalls[g].caller = "generateManifestCache"}

\* the file f is what the task of manifest i has written
WrittenBy(f, i) ==
    /\ Succeeded(i)
    /\ f.path = resolvedManifests[i].output
    /\ f.content = JSONStringify(GeneratedBy(i))

\* C18: the disk cache is written only by buildStart and only when
\* cacheManifests is true: every file that no earlier run has left is the
\* output of a task of buildStart, resolveId, load and the handling of file
\* events create and modify no file, every generate invocation is made by a
\* load or by a task of buildStart and none by the handling of an event, and
\* with cacheManifests false buildStart invokes no generate and writes no file.
C18_CacheWrittenOnlyByBuildStart ==
    /\ \A f \in files : f \in StaleFiles \/ \E i \in Tasks : WrittenBy(f, i)
    /\ \A d \in directories :
          \E i \in Tasks : tasks[i].pc \in {"writeFile", "done"}
                           /\ d = dirname(resolvedManifests[i].output)
    /\ tasks # <<>> => options.cacheManifests /\ buildState # "idle"
    /\ LoadGenerates \cup CacheGenerates = 1..Len(generateCalls)
    /\ Cardinality(LoadGenerates) = Cardinality(ManifestLoads)
    /\ Cardinality(CacheGenerates) = Len(tasks)
    /\ ~options.cacheManifests =>
          /\ tasks = <<>>
          /\ CacheGenerates = {}
          /\ files \subseteq StaleFiles
          /\ directories = {}
          /\ buildState \in {"idle", "resolved"}

\* C18 witness: with cacheManifests false buildStart has returned and a load
\* has returned the source of a manifest, the file of an earlier run being as
\* it was
C18_Witness ==
    /\ ~options.cacheManifests
    /\ buildState = "resolved"
    /\ ReturnedLoads # {}
    /\ files = StaleFiles
    /\ generateCalls # <<>>

====
